---- MODULE Spec2Model ----
(***************************************************************************)
(* Fire-risk scoring pipeline of projeto_REME: the upload handler of       *)
(* app.py (carregar_base_reme -> calcular_scores_mensais ->                *)
(* add_reclassificacoes) over workbooks drawn from bounded families.       *)
(*                                                                         *)
(* Text is a sequence of one-character strings (non-ASCII characters are   *)
(* written by code point, "U+00E7" is c-cedilla, "U+00E9" e-acute).        *)
(* A float is an IEEE-754 binary64 value: every operation of the code on   *)
(* floats is rounded to nearest, ties to even, as numpy and pandas do.     *)
(***************************************************************************)
EXTENDS Integers, Sequences, FiniteSets, TLC

VARIABLES
    pc,             \* position in the upload handler of app.py (lines 165-203)
    atributos,      \* the dictionary passed to calcular_scores_mensais (calculo.py line 128)
    pesos_ahp,      \* pesos.pesos_ahp: criterion -> weight
    ordem,          \* list(pesos_ahp.keys()), calculo.py line 184
    arquivo,        \* the uploaded workbook, <<>> before an upload
    df_processado,  \* app.py line 169
    ag,             \* the frame ag of calcular_scores_mensais after line 181
    resultado_raw,  \* app.py line 172
    resultado,      \* app.py line 173
    df_mapa_anual,  \* app.py lines 177-197
    erro,           \* the exception caught at line 201, "" when none
    score_in,       \* the argument of a direct call of class_geral_from_score
    classe_out      \* its result

vars == <<pc, atributos, pesos_ahp, ordem, arquivo, df_processado, ag, resultado_raw, resultado,
          df_mapa_anual, erro, score_in, classe_out>>

-----------------------------------------------------------------------------
(* Text: str.lower, the "in" operator, str.replace, ordering by code point *)

Maiusculas == <<"A", "B", "C", "D", "E", "F", "G", "H", "I", "J", "K", "L", "M",
                "N", "O", "P", "Q", "R", "S", "T", "U", "V", "W", "X", "Y", "Z",
                "U+00C7", "U+00C9">>

Minusculas == <<"a", "b", "c", "d", "e", "f", "g", "h", "i", "j", "k", "l", "m",
                "n", "o", "p", "q", "r", "s", "t", "u", "v", "w", "x", "y", "z",
                "U+00E7", "U+00E9">>

Digitos == <<"0", "1", "2", "3", "4", "5", "6", "7", "8", "9">>

\* Characters in code-point order: space ( ) . digits upper-case _ lower-case, then Latin-1.
Alfabeto == <<" ", "%", "(", ")", ".">> \o Digitos \o SubSeq(Maiusculas, 1, 26) \o <<"_">>
            \o SubSeq(Minusculas, 1, 26) \o <<"U+00C7", "U+00C9", "U+00E7", "U+00E9">>

Range(s) == {s[i] : i \in DOMAIN s}

\* ord(c), as a position in Alfabeto
OrdDe == [c \in Range(Alfabeto) |-> CHOOSE i \in DOMAIN Alfabeto : Alfabeto[i] = c]

Ord(c) == OrdDe[c]

\* c.lower() of every character
LowerDe ==
    [c \in Range(Alfabeto) |->
        IF \E i \in DOMAIN Maiusculas : Maiusculas[i] = c
        THEN Minusculas[CHOOSE i \in DOMAIN Maiusculas : Maiusculas[i] = c]
        ELSE c]

LowerChar(c) == LowerDe[c]

Lower(s) == [i \in DOMAIN s |-> LowerChar(s[i])]

\* Python: sub in s
StartsAt(s, sub, i) ==
    /\ i + Len(sub) - 1 <= Len(s)
    /\ \A k \in 1..Len(sub) : s[i + k - 1] = sub[k]

Contem(s, sub) == \E i \in 1..(Len(s) + 1) : StartsAt(s, sub, i)

\* Python: s.replace(sub, ""), leftmost non-overlapping occurrences
RECURSIVE RemoveAll(_, _)
RemoveAll(s, sub) ==
    IF s = <<>> THEN <<>>
    ELSE IF StartsAt(s, sub, 1) THEN RemoveAll(SubSeq(s, Len(sub) + 1, Len(s)), sub)
    ELSE <<Head(s)>> \o RemoveAll(Tail(s), sub)

\* Python: a < b on str (lexicographic by code point)
RECURSIVE StrLess(_, _)
StrLess(a, b) ==
    IF b = <<>> THEN FALSE
    ELSE IF a = <<>> THEN TRUE
    ELSE IF Head(a) = Head(b) THEN StrLess(Tail(a), Tail(b))
    ELSE Ord(Head(a)) < Ord(Head(b))

\* Python: str(t) of a non-negative int
RECURSIVE Str(_)
Str(n) == IF n < 10 THEN <<Digitos[n + 1]>> ELSE Str(n \div 10) \o <<Digitos[(n % 10) + 1]>>

\* The classes of the regular expressions [a-zç] and \d
Letras == {Minusculas[i] : i \in 1..27}
EhLetra(c) == c \in Letras
EhDigito(c) == c \in Range(Digitos)

\* End of the maximal run of [a-zç] that starts at i (i itself a letter)
RECURSIVE FimLetras(_, _)
FimLetras(s, i) == IF i < Len(s) /\ EhLetra(s[i + 1]) THEN FimLetras(s, i + 1) ELSE i

\* re.search(r"([a-zç]+)_(\d{4})") matches at i: letters to j, "_", four digits
CasaEm(s, i) ==
    /\ EhLetra(s[i])
    /\ LET j == FimLetras(s, i) IN
       /\ j + 5 <= Len(s)
       /\ s[j + 1] = "_"
       /\ \A k \in 2..5 : EhDigito(s[j + k])

Nulo == <<"NaN">>

\* str.extract(r"([a-zç]+)_(\d{4})"): <<group 0, group 1>> of the leftmost match, Nulo without one
ExtrairMesAno(s) ==
    IF \E i \in DOMAIN s : CasaEm(s, i)
    THEN LET i == CHOOSE i \in DOMAIN s : CasaEm(s, i) /\ \A k \in 1..(i - 1) : ~CasaEm(s, k)
             j == FimLetras(s, i)
         IN <<SubSeq(s, i, j), SubSeq(s, j + 2, j + 5)>>
    ELSE Nulo

\* str.extract(r"([a-zç]+)")[0]: the leftmost maximal run of letters, Nulo without one
ExtrairLetras(s) ==
    IF \E i \in DOMAIN s : EhLetra(s[i])
    THEN LET i == CHOOSE i \in DOMAIN s : EhLetra(s[i]) /\ \A k \in 1..(i - 1) : ~EhLetra(s[k])
         IN SubSeq(s, i, FimLetras(s, i))
    ELSE Nulo

-----------------------------------------------------------------------------
\* The element of a set of one element
Unico(S) == CHOOSE x \in S : TRUE

(***************************************************************************)
(* Natural numbers of any size: little-endian sequences of limbs in base   *)
(* 2^15, without leading zero limbs; <<>> is zero.                         *)
(***************************************************************************)
Base == 32768
LimbBits == 15

RECURSIVE NTrim(_)
NTrim(a) == IF a = <<>> THEN a
            ELSE IF a[Len(a)] = 0 THEN NTrim(SubSeq(a, 1, Len(a) - 1)) ELSE a

RECURSIVE NDe(_)
NDe(n) == IF n = 0 THEN <<>> ELSE <<n % Base>> \o NDe(n \div Base)

\* -1, 0, 1: the comparison of two naturals, from the top limb down
RECURSIVE NCmp(_, _)
NCmp(a, b) ==
    IF Len(a) < Len(b) THEN -1
    ELSE IF Len(a) > Len(b) THEN 1
    ELSE IF a = <<>> THEN 0
    ELSE IF a[Len(a)] < b[Len(a)] THEN -1
    ELSE IF a[Len(a)] > b[Len(a)] THEN 1
    ELSE NCmp(SubSeq(a, 1, Len(a) - 1), SubSeq(b, 1, Len(a) - 1))

Limb(a, i) == IF i <= Len(a) THEN a[i] ELSE 0

RECURSIVE NAddDe(_, _, _, _)
NAddDe(a, b, i, c) ==
    IF i > Len(a) /\ i > Len(b) THEN (IF c = 0 THEN <<>> ELSE <<c>>)
    ELSE LET t == Limb(a, i) + Limb(b, i) + c
         IN <<t % Base>> \o NAddDe(a, b, i + 1, t \div Base)

NAdd(a, b) == NAddDe(a, b, 1, 0)

\* a - b for a >= b
RECURSIVE NSubDe(_, _, _, _)
NSubDe(a, b, i, c) ==
    IF i > Len(a) THEN <<>>
    ELSE LET t == a[i] - Limb(b, i) - c
         IN IF t < 0 THEN <<t + Base>> \o NSubDe(a, b, i + 1, 1)
            ELSE <<t>> \o NSubDe(a, b, i + 1, 0)

NSub(a, b) == NTrim(NSubDe(a, b, 1, 0))

\* a * d for one limb d
RECURSIVE NMulLimbDe(_, _, _, _)
NMulLimbDe(a, d, i, c) ==
    IF i > Len(a) THEN (IF c = 0 THEN <<>> ELSE <<c>>)
    ELSE LET t == a[i] * d + c
         IN <<t % Base>> \o NMulLimbDe(a, d, i + 1, t \div Base)

NMulLimb(a, d) == IF d = 0 THEN <<>> ELSE NMulLimbDe(a, d, 1, 0)

\* a * b = a * b[1] + Base * (a * the rest of b)
RECURSIVE NMul(_, _)
NMul(a, b) ==
    IF b = <<>> THEN <<>>
    ELSE Unico({NAdd(NMulLimb(a, b[1]), IF r = <<>> THEN r ELSE <<0>> \o r) : r \in {NMul(a, Tail(b))}})

RECURSIVE BitsLimb(_)
BitsLimb(x) == IF x = 0 THEN 0 ELSE 1 + BitsLimb(x \div 2)

NBits(a) == IF a = <<>> THEN 0 ELSE LimbBits * (Len(a) - 1) + BitsLimb(a[Len(a)])

RECURSIVE TzLimb(_)
TzLimb(x) == IF x % 2 = 1 THEN 0 ELSE 1 + TzLimb(x \div 2)

\* trailing zero bits of a # 0
RECURSIVE NTz(_)
NTz(a) == IF a[1] = 0 THEN LimbBits + NTz(Tail(a)) ELSE TzLimb(a[1])

Zeros(n) == [i \in 1..n |-> 0]

NShl(a, k) ==
    IF a = <<>> \/ k = 0 THEN a
    ELSE Zeros(k \div LimbBits) \o NMulLimb(a, 2 ^ (k % LimbBits))

\* floor(a / 2^k)
NShr(a, k) ==
    IF k = 0 THEN a
    ELSE IF k \div LimbBits >= Len(a) THEN <<>>
    ELSE LET r == SubSeq(a, (k \div LimbBits) + 1, Len(a))
             b == k % LimbBits
             lo == 2 ^ b
             hi == 2 ^ (LimbBits - b)
         IN IF b = 0 THEN r
            ELSE NTrim([i \in 1..Len(r) |-> (r[i] \div lo) + (Limb(r, i + 1) % lo) * hi] \o <<>>)

NOdd(a) == a # <<>> /\ a[1] % 2 = 1

Min(x, y) == IF x < y THEN x ELSE y

\* largest d with d * b <= r, for b with a top limb of at least Base / 2 and
\* r < Base * b (Knuth's algorithm D: the estimate is at most 2 too large)
RECURSIVE NDigitoDe(_, _, _)
NDigitoDe(r, b, d) == IF NCmp(NMulLimb(b, d), r) > 0 THEN NDigitoDe(r, b, d - 1) ELSE d

NDigito(r, b) ==
    IF NCmp(r, b) < 0 THEN 0
    ELSE NDigitoDe(r, b, Min(Base - 1, (Limb(r, Len(b) + 1) * Base + r[Len(b)]) \div b[Len(b)]))

\* long division, from the top limb of a down: r is the remainder so far and q the
\* digits of the quotient so far
RECURSIVE NDivDe(_, _, _, _, _)
NDivDe(a, b, i, r, q) ==
    IF i = 0 THEN <<NTrim(q), r>>
    ELSE Unico({Unico({NDivDe(a, b, i - 1, NSub(r1, NMulLimb(b, d)), <<d>> \o q)
                       : d \in {NDigito(r1, b)}})
                : r1 \in {NTrim(<<a[i]>> \o r)}})

\* <<floor(a / b), r>> for b # 0, with r = 0 exactly when b divides a
NDivMod(a, b) ==
    LET sh == 2 ^ (LimbBits - BitsLimb(b[Len(b)]))
    IN Unico({NDivDe(p[1], p[2], Len(p[1]), <<>>, <<>>) : p \in {<<NMulLimb(a, sh), NMulLimb(b, sh)>>}})

(***************************************************************************)
(* IEEE-754 binary64, round to nearest, ties to even.  A float is          *)
(* <<k, s, m, e>>: k = 0 NaN, k = 2 infinity, k = 1 the finite s * m * 2^e *)
(* with s in {1, -1} and m odd (or m = <<>>, e = 0 for a zero).            *)
(***************************************************************************)
Precisao == 53
ExpoenteMin == -1074
ExpoenteMax == 1024

NaN == <<0, 1, <<>>, 0>>
Inf(s) == <<2, s, <<>>, 0>>
Zero(s) == <<1, s, <<>>, 0>>

IsNaN(a) == a[1] = 0
IsInf(a) == a[1] = 2
IsZero(a) == a[1] = 1 /\ a[3] = <<>>

Canon(s, m, e) ==
    IF m = <<>> THEN Zero(s)
    ELSE IF NBits(m) + e > ExpoenteMax THEN Inf(s)
    ELSE LET tz == NTz(m) IN <<1, s, NShr(m, tz), e + tz>>

\* the float nearest to s * (m + d) * 2^e, where 0 < d < 1 if st and d = 0 if not
Round(s, m, e, st) ==
    IF m = <<>> THEN Zero(s)
    ELSE LET nb == NBits(m)
             k == nb - Min(Precisao, nb + e - ExpoenteMin)
         IN IF k <= 0 THEN Canon(s, m, e)
            ELSE LET guard == NOdd(NShr(m, k - 1))
                     sticky == st \/ NTz(m) < k - 1
                 IN Unico({IF guard /\ (sticky \/ NOdd(q)) THEN Canon(s, NAdd(q, <<1>>), e + k)
                           ELSE Canon(s, q, e + k)
                           : q \in {NShr(m, k)}})

Num(n) == IF n < 0 THEN Canon(-1, NDe(-n), 0) ELSE Canon(1, NDe(n), 0)
Pot2(k) == <<1, 1, <<1>>, k>>
\* exponent of the bit above the top bit of a finite a # 0
Topo(a) == NBits(a[3]) + a[4]

\* the exact sum of two finite non-zero floats, as <<s, m, e>>
XAdd(a, b) ==
    LET e == Min(a[4], b[4])
    IN Unico({IF a[2] = b[2] THEN <<a[2], NAdd(x, y), e>>
              ELSE LET c == NCmp(x, y)
                   IN IF c = 0 THEN <<1, <<>>, 0>>
                      ELSE IF c > 0 THEN <<a[2], NSub(x, y), e>>
                      ELSE <<b[2], NSub(y, x), e>>
              : x \in {NShl(a[3], a[4] - e)}, y \in {NShl(b[3], b[4] - e)}})

\* a + b.  A term more than 64 bits below the other one cannot move the sum.  Here and
\* in the other operations the operands are bound once.
RAdd(a, b) ==
    Unico({IF IsNaN(x) \/ IsNaN(y) THEN NaN
           ELSE IF IsInf(x) THEN (IF IsInf(y) /\ x[2] # y[2] THEN NaN ELSE x)
           ELSE IF IsInf(y) THEN y
           ELSE IF IsZero(x) THEN (IF IsZero(y) THEN Zero(IF x[2] = -1 /\ y[2] = -1 THEN -1 ELSE 1) ELSE y)
           ELSE IF IsZero(y) THEN x
           ELSE IF Topo(x) - Topo(y) > 64 THEN x
           ELSE IF Topo(y) - Topo(x) > 64 THEN y
           ELSE Unico({Round(t[1], t[2], t[3], FALSE) : t \in {XAdd(x, y)}})
           : x \in {a}, y \in {b}})

\* a - b = a + (-b)
RSub(a, b) == Unico({RAdd(a, <<y[1], -y[2], y[3], y[4]>>) : y \in {b}})

RMul(a, b) ==
    Unico({IF IsNaN(x) \/ IsNaN(y) THEN NaN
           ELSE IF IsInf(x) \/ IsInf(y)
                THEN (IF IsZero(x) \/ IsZero(y) THEN NaN ELSE Inf(x[2] * y[2]))
           ELSE IF IsZero(x) \/ IsZero(y) THEN Zero(x[2] * y[2])
           ELSE Round(x[2] * y[2], NMul(x[3], y[3]), x[4] + y[4], FALSE)
           : x \in {a}, y \in {b}})

\* a / b: the quotient of the mantissas to at least 56 bits (k limbs of zeros below the
\* dividend), the remainder kept as the sticky bit
RDiv(a, b) ==
    Unico({IF IsNaN(x) \/ IsNaN(y) THEN NaN
           ELSE IF IsInf(x) THEN (IF IsInf(y) THEN NaN ELSE Inf(x[2] * y[2]))
           ELSE IF IsInf(y) THEN Zero(x[2] * y[2])
           ELSE IF IsZero(y) THEN (IF IsZero(x) THEN NaN ELSE Inf(x[2] * y[2]))
           ELSE IF IsZero(x) THEN Zero(x[2] * y[2])
           ELSE IF y[3] = <<1>> THEN Round(x[2] * y[2], x[3], x[4] - y[4], FALSE)
           ELSE LET d == 56 + NBits(y[3]) - NBits(x[3])
                    k == IF d > 0 THEN (d + LimbBits - 1) \div LimbBits ELSE 0
                IN Unico({Round(x[2] * y[2], qr[1], x[4] - y[4] - k * LimbBits, qr[2] # <<>>)
                          : qr \in {NDivMod(Zeros(k) \o x[3], y[3])}})
           : x \in {a}, y \in {b}})

\* -1, 0, 1 for a < b, a = b, a > b, and 2 when one of the two is NaN
RCmp(a, b) ==
    Unico({IF IsNaN(x) \/ IsNaN(y) THEN 2
           ELSE IF IsZero(x) /\ IsZero(y) THEN 0
           ELSE IF IsZero(x) THEN -y[2]
           ELSE IF IsZero(y) THEN x[2]
           ELSE IF x[2] # y[2] THEN x[2]
           ELSE IF IsInf(x) THEN (IF IsInf(y) THEN 0 ELSE x[2])
           ELSE IF IsInf(y) THEN -x[2]
           ELSE IF Topo(x) < Topo(y) THEN -x[2]
           ELSE IF Topo(x) > Topo(y) THEN x[2]
           ELSE LET e == Min(x[4], y[4]) IN x[2] * NCmp(NShl(x[3], x[4] - e), NShl(y[3], y[4] - e))
           : x \in {a}, y \in {b}})

\* IEEE comparisons: every comparison with NaN is false
RLt(a, b) == RCmp(a, b) = -1
REq(a, b) == RCmp(a, b) = 0
RLe(a, b) == RCmp(a, b) \in {-1, 0}

Frac(n, d) == RDiv(Num(n), Num(d))

SemNaN(s) == SelectSeq(s, LAMBDA x : ~IsNaN(x))

\* Series.min() / Series.max(): NaN skipped, NaN when nothing is left
SerieMin(s) ==
    LET v == SemNaN(s) IN
    IF v = <<>> THEN NaN ELSE CHOOSE x \in Range(v) : \A y \in Range(v) : RLe(x, y)
SerieMax(s) ==
    LET v == SemNaN(s) IN
    IF v = <<>> THEN NaN ELSE CHOOSE x \in Range(v) : \A y \in Range(v) : RLe(y, x)

\* The sum of a group as pandas adds it (group_mean of pandas/_libs/groupby.pyx):
\* Kahan summation in row order, the compensation reset when it is NaN
RECURSIVE SomaKahan(_, _, _, _)
SomaKahan(v, i, sumx, compensation) ==
    IF i > Len(v) THEN sumx
    ELSE Unico({Unico({Unico({SomaKahan(v, i + 1, t, IF IsNaN(c) THEN Zero(1) ELSE c)
                              : c \in {RSub(RSub(t, sumx), y)}})
                       : t \in {RAdd(sumx, y)}})
                : y \in {RSub(v[i], compensation)}})

\* The mean with skipna=False: NaN as soon as one value is NaN
MediaSemSkipna(s) == IF s = <<>> THEN NaN ELSE RDiv(SomaKahan(s, 1, Zero(1), Zero(1)), Num(Len(s)))

\* groupby(...).agg("mean"): NaN skipped, NaN for a group with no value
Media(s) ==
    LET v == SemNaN(s) IN
    IF v = <<>> THEN NaN ELSE RDiv(SomaKahan(v, 1, Zero(1), Zero(1)), Num(Len(v)))

\* ndarray.sum() of a contiguous run of doubles (numpy's pairwise summation): fewer
\* than 8 terms are added left to right, up to 128 terms in 8 interleaved partial sums
\* that are then added in pairs, the terms left over added last; longer runs are halved
RECURSIVE SomaEsquerda(_, _, _)
SomaEsquerda(a, i, res) == IF i > Len(a) THEN res ELSE SomaEsquerda(a, i + 1, RAdd(res, a[i]))

RECURSIVE Parcial(_, _, _, _)
Parcial(a, i, fim, r) == IF i > fim THEN r ELSE Parcial(a, i + 8, fim, RAdd(r, a[i]))

RECURSIVE SomaNumpy(_)
SomaNumpy(a) ==
    IF Len(a) < 8 THEN SomaEsquerda(a, 1, Zero(1))
    ELSE IF Len(a) <= 128
    THEN LET fim == Len(a) - (Len(a) % 8)
         IN Unico({SomaEsquerda(a, fim + 1,
                       RAdd(RAdd(RAdd(r[1], r[2]), RAdd(r[3], r[4])), RAdd(RAdd(r[5], r[6]), RAdd(r[7], r[8]))))
                   : r \in {[j \in 1..8 |-> Parcial(a, j + 8, fim, a[j])] \o <<>>}})
    ELSE LET n2 == (Len(a) \div 2) - ((Len(a) \div 2) % 8)
         IN RAdd(SomaNumpy(SubSeq(a, 1, n2)), SomaNumpy(SubSeq(a, n2 + 1, Len(a))))

-----------------------------------------------------------------------------
(* Tables.  A sheet is [nome, pontos, cols, cel]: the "Pontos" column, the *)
(* other column headers, and cel[r][c] the cell of row r under cols[c].    *)
(* A workbook (arquivo) is the sequence of its sheets.                     *)

RECURSIVE Concat(_)
Concat(ss) == IF ss = <<>> THEN <<>> ELSE Head(ss) \o Concat(Tail(ss))

\* Keys <<Pontos, Mes_Ano>>: plot ids as read from the sheet (integers), tokens as str
ChaveMenor(a, b) == a[1] < b[1] \/ (a[1] = b[1] /\ StrLess(a[2], b[2]))

RECURSIVE Ordenar(_)
Ordenar(S) ==
    IF S = {} THEN <<>>
    ELSE LET m == CHOOSE x \in S : \A y \in S \ {x} : ChaveMenor(x, y)
         IN <<m>> \o Ordenar(S \ {m})

NOME_PRECIPITACAO == <<"P", "r", "e", "c", "i", "p", "i", "t", "a", "c", "a", "o", "_", "t", "o", "t", "a", "l">>
NOME_TEMP_MAX == <<"T", "e", "m", "p", "_", "m", "a", "x">>
NOME_TEMP_MEDIA == <<"T", "e", "m", "p", "_", "m", "U+00E9", "d", "i", "a", "_", "f", "i", "n", "a", "l">>
NOME_UMIDADE == <<"U", "m", "i", "d", "a", "d", "e", "_", "R", "e", "l", "a", "t", "i", "v", "a">>

LAT == <<"L", "A", "T">>
LON == <<"L", "O", "N">>

\* ler_aba comparing the names as written (no .lower())
ler_aba_sem_lower(arq, nome) ==
    IF \E i \in DOMAIN arq : Contem(arq[i].nome, nome)
    THEN CHOOSE i \in DOMAIN arq :
            /\ Contem(arq[i].nome, nome)
            /\ \A k \in 1..(i - 1) : ~Contem(arq[k].nome, nome)
    ELSE 0

\* ler_aba: the position of the first sheet whose lower-cased name contains the
\* lower-cased nome; 0 stands for None
ler_aba(arq, nome) ==
    IF \E i \in DOMAIN arq : Contem(Lower(arq[i].nome), Lower(nome))
    THEN CHOOSE i \in DOMAIN arq :
            /\ Contem(Lower(arq[i].nome), Lower(nome))
            /\ \A k \in 1..(i - 1) : ~Contem(Lower(arq[k].nome), Lower(nome))
    ELSE 0

\* Index of a column header in a sheet, 0 when absent
ColIdx(df, h) ==
    IF \E c \in DOMAIN df.cols : df.cols[c] = h
    THEN CHOOSE c \in DOMAIN df.cols : df.cols[c] = h /\ \A k \in 1..(c - 1) : df.cols[k] # h
    ELSE 0

TemCoords(df) == ColIdx(df, LAT) # 0 /\ ColIdx(df, LON) # 0

RECURSIVE SemDuplicatas(_)
SemDuplicatas(s) ==
    IF s = <<>> THEN <<>>
    ELSE LET r == SemDuplicatas(SubSeq(s, 1, Len(s) - 1))
             x == s[Len(s)]
         IN IF x \in Range(r) THEN r ELSE Append(r, x)

\* df[["Pontos", "LAT", "LON"]].drop_duplicates()
CoordsDe(df) ==
    SemDuplicatas([r \in DOMAIN df.pontos |->
        [talhao |-> df.pontos[r], lat |-> df.cel[r][ColIdx(df, LAT)], lon |-> df.cel[r][ColIdx(df, LON)]]])

\* coords is not None: one of the four frames has both LAT and LON
TemAlgumaCoord(dfs) == \E i \in DOMAIN dfs : TemCoords(dfs[i])

\* coords: taken from the first of the four frames that has both LAT and LON
Coords(dfs) ==
    CoordsDe(dfs[CHOOSE i \in DOMAIN dfs : TemCoords(dfs[i]) /\ \A k \in 1..(i - 1) : ~TemCoords(dfs[k])])

\* df.drop(columns=[LAT, LON]) where present
SemLatLon(df) ==
    LET keep == SelectSeq([c \in DOMAIN df.cols |-> c], LAMBDA c : df.cols[c] \notin {LAT, LON})
    IN [nome |-> df.nome, pontos |-> df.pontos,
        cols |-> [k \in DOMAIN keep |-> df.cols[keep[k]]],
        cel |-> [r \in DOMAIN df.cel |-> [k \in DOMAIN keep |-> df.cel[r][keep[k]]]]]

\* meses_map.get(m, m)
meses_map(m) ==
    CASE m = <<"a", "b", "r", "i", "l">> -> <<"a", "b", "r">>
      [] m = <<"m", "a", "r", "U+00E7", "o">> -> <<"m", "a", "r">>
      [] m = <<"m", "a", "r", "U+00E7", "o", ".">> -> <<"m", "a", "r">>
      [] m = <<"d", "e", "c">> -> <<"d", "e", "z">>
      [] OTHER -> m

\* x.split("_")
RECURSIVE Split(_)
Split(s) ==
    IF \E i \in DOMAIN s : s[i] = "_"
    THEN LET i == CHOOSE i \in DOMAIN s : s[i] = "_" /\ \A k \in 1..(i - 1) : s[k] # "_"
         IN <<SubSeq(s, 1, i - 1)>> \o Split(SubSeq(s, i + 1, Len(s)))
    ELSE <<s>>

PREFIXOS == << <<"t", "m", "i", "n", "_">>, <<"t", "_", "m", "a", "x", "_">>, <<"u", "m", "i", "d", "_">>,
               <<"p", "r", "e", "c", "i", "p", "i", "t", "a", "c", "a", "o", "_">>, <<"t", "e", "m", "p", "_">> >>

RECURSIVE SemPrefixos(_, _)
SemPrefixos(s, k) == IF k > Len(PREFIXOS) THEN s ELSE SemPrefixos(RemoveAll(s, PREFIXOS[k]), k + 1)

\* The month-year token of one header: the month from the lower-cased header without
\* prefixes, the year from the header as written; "" when either extraction fails
Mes_Ano(h) ==
    LET mes == ExtrairMesAno(SemPrefixos(Lower(h), 1))
        ano == ExtrairMesAno(h)
        x == IF mes = Nulo \/ ano = Nulo THEN <<>> ELSE mes[1] \o <<"_">> \o ano[2]
    IN IF "_" \in Range(x) THEN meses_map(Split(x)[1]) \o <<"_">> \o Split(x)[2] ELSE x

\* processar_df: melt (column by column, rows in order), then the token of each header
processar_df(df) ==
    Concat([c \in DOMAIN df.cols |->
        LET token == Mes_Ano(df.cols[c])
        IN [r \in DOMAIN df.pontos |->
              [Pontos |-> df.pontos[r], Mes_Ano |-> token, v |-> df.cel[r][c]]]])

Chave(r) == <<r.Pontos, r.Mes_Ano>>

Linhas(t, k) == SelectSeq(t, LAMBDA r : Chave(r) = k)

\* left.merge(right, on=["Pontos", "Mes_Ano"], how="outer"): keys in sorted order, one row
\* per pair of a left and a right row of the key, NaN for the side that lacks the key.
\* A left row carries vs, the values gathered so far; n is their number.
MergeOuter(left, right, n) ==
    LET keys == Ordenar({Chave(r) : r \in Range(left)} \cup {Chave(r) : r \in Range(right)})
        de(k) ==
            LET L == Linhas(left, k)
                R == Linhas(right, k)
            IN IF L = <<>> THEN [j \in DOMAIN R |->
                       [Pontos |-> k[1], Mes_Ano |-> k[2], vs |-> [i \in 1..n |-> NaN] \o <<R[j].v>>]]
               ELSE IF R = <<>> THEN [i \in DOMAIN L |->
                       [Pontos |-> k[1], Mes_Ano |-> k[2], vs |-> L[i].vs \o <<NaN>>]]
               ELSE Concat([i \in DOMAIN L |-> [j \in DOMAIN R |->
                       [Pontos |-> k[1], Mes_Ano |-> k[2], vs |-> L[i].vs \o <<R[j].v>>]]])
    IN Concat([i \in DOMAIN keys |-> de(keys[i])])

\* df_consolidado.merge(coords, on="talhao", how="left")
MergeCoords(linhas, coords) ==
    Concat([i \in DOMAIN linhas |->
        LET C == SelectSeq(coords, LAMBDA c : c.talhao = linhas[i].talhao)
        IN IF C = <<>> THEN <<linhas[i]>>
           ELSE [j \in DOMAIN C |-> [linhas[i] EXCEPT !.lat = C[j].lat, !.lon = C[j].lon]]])

\* The test of line 32: one of the four reads returned None
Faltando(arq) ==
    \/ ler_aba(arq, NOME_PRECIPITACAO) = 0
    \/ ler_aba(arq, NOME_TEMP_MAX) = 0
    \/ ler_aba(arq, NOME_TEMP_MEDIA) = 0
    \/ ler_aba(arq, NOME_UMIDADE) = 0

\* Lines 26-29: the four frames, in the order precipitation, max temperature, mean
\* temperature, humidity
LerAbas(arq) ==
    <<arq[ler_aba(arq, NOME_PRECIPITACAO)], arq[ler_aba(arq, NOME_TEMP_MAX)],
      arq[ler_aba(arq, NOME_TEMP_MEDIA)], arq[ler_aba(arq, NOME_UMIDADE)]>>

\* Lines 80-83: the four long tables
Derreter(dfs) == [i \in 1..4 |-> processar_df(SemLatLon(dfs[i]))] \o <<>>

\* Lines 86-91: the three outer merges
ComVs(t) == [i \in DOMAIN t |-> [Pontos |-> t[i].Pontos, Mes_Ano |-> t[i].Mes_Ano, vs |-> <<t[i].v>>]]

Juntar(longo) ==
    Unico({MergeOuter(m3, longo[4], 3) :
        m3 \in {Unico({MergeOuter(m2, longo[3], 2) : m2 \in {MergeOuter(ComVs(longo[1]), longo[2], 1)}})}})

\* Lines 93-109: the columns renamed, and lat/lon attached when coords was captured
Consolidar(dfs, m) ==
    LET consolidado == [i \in DOMAIN m |->
            [talhao |-> m[i].Pontos, mes |-> m[i].Mes_Ano,
             precipitacao |-> m[i].vs[1], temp_maxima |-> m[i].vs[2],
             temp_media |-> m[i].vs[3], umidade |-> m[i].vs[4],
             lat |-> NaN, lon |-> NaN]]
    IN [tem_coords |-> TemAlgumaCoord(dfs),
        linhas |-> IF TemAlgumaCoord(dfs) THEN MergeCoords(consolidado, Coords(dfs)) ELSE consolidado]

\* carregar_base_reme past the check of the four sheets: [tem_coords, linhas].  Every
\* intermediate frame is bound once.
carregar_base_reme(arq) ==
    Unico(UNION {UNION {{Consolidar(dfs, m) : m \in {Juntar(longo)}} : longo \in {Derreter(dfs)}}
                 : dfs \in {LerAbas(arq)}})

-----------------------------------------------------------------------------
(* variaveis_talhao.py: the plots (of 1..100) that have each attribute     *)

Proximidade_Eletrica == {2, 3, 14, 15, 26, 27, 28, 36, 37, 45, 46, 58, 59, 63, 64, 65, 66, 68, 69, 70,
                         73, 74, 75, 76, 77, 80, 81, 89, 90, 91, 92}
Proximidade_Moradores == {2, 3, 14, 15}
Proximidade_Estrada_Municipal == {8, 9, 19, 20, 31, 32, 40, 42, 85, 86, 99, 100}
Plantio_Eucalipto == {1, 2, 3, 4, 5, 6, 7, 8, 9, 10, 11, 12, 13, 14, 15, 16, 18, 19, 20, 21, 22, 24, 25,
                      27, 28, 29, 30, 31, 33, 34, 35, 36, 38, 39, 40, 41, 42, 43, 44, 45, 47, 48, 50, 52,
                      54, 56, 57, 58, 59, 62, 63, 64, 69, 72, 73, 75, 76, 77, 78, 79, 80, 81, 82, 83, 84,
                      85, 88, 91, 92, 93, 94, 95, 97, 98, 99}
Vegetacao_Nativa_Cerrado == {7, 17, 23, 26, 37, 41, 46, 49, 51, 53, 55, 61, 66, 67, 71, 74, 96}
Vegetacao_Area_Umida == {32, 34, 60, 61, 65, 68, 70, 87, 89, 90}
Represas_Rios == {23, 32, 41, 50, 51, 55, 60, 61, 65, 66, 67, 68, 70, 71, 74, 80, 81, 87, 89, 90}

bool_vars == <<"eucalipto", "area_umida", "represas_rios", "estrada", "eletrica", "moradores", "cerrado">>

\* The dictionary variaveis_talhao of variaveis_talhao.py, as the keys str(ponto) whose
\* record has var True
Registro ==
    [var \in Range(bool_vars) |->
        {Str(p) : p \in (1..100) \cap
            (CASE var = "eucalipto" -> Plantio_Eucalipto
               [] var = "area_umida" -> Vegetacao_Area_Umida
               [] var = "represas_rios" -> Represas_Rios
               [] var = "estrada" -> Proximidade_Estrada_Municipal
               [] var = "eletrica" -> Proximidade_Eletrica
               [] var = "moradores" -> Proximidade_Moradores
               [] var = "cerrado" -> Vegetacao_Nativa_Cerrado)}]

\* variaveis_talhao.get(key, {}).get(var, False), on the dictionary that was passed
variaveis_talhao(key, var) == key \in atributos[var]

-----------------------------------------------------------------------------
(* calculo.py: normalizar_escala and calcular_scores_mensais               *)

clima == <<"umidade", "precipitacao", "temp_maxima", "temp_media">>

\* The criteria of the weight vector: the keys of valores_cols
Criterios == clima \o bool_vars

\* normalizar_escala over a column given as a sequence
normalizar_escala(v, inverter) ==
    Unico({LET out == IF REq(vmax, vmin) THEN [i \in DOMAIN v |-> Num(0)]
                      ELSE [i \in DOMAIN v |-> RDiv(RSub(v[i], vmin), RSub(vmax, vmin))]
           IN (IF inverter THEN [i \in DOMAIN v |-> RSub(Num(1), out[i])] ELSE out) \o <<>>
           : vmin \in {SerieMin(v)}, vmax \in {SerieMax(v)}})

\* .replace({...}) of the full month names
nome_para_abrev(m) ==
    CASE m = <<"j", "a", "n", "e", "i", "r", "o">> -> <<"j", "a", "n">>
      [] m = <<"f", "e", "v", "e", "r", "e", "i", "r", "o">> -> <<"f", "e", "v">>
      [] m = <<"m", "a", "r", "U+00E7", "o">> -> <<"m", "a", "r">>
      [] m = <<"a", "b", "r", "i", "l">> -> <<"a", "b", "r">>
      [] m = <<"m", "a", "i", "o">> -> <<"m", "a", "i">>
      [] m = <<"j", "u", "n", "h", "o">> -> <<"j", "u", "n">>
      [] m = <<"j", "u", "l", "h", "o">> -> <<"j", "u", "l">>
      [] m = <<"a", "g", "o", "s", "t", "o">> -> <<"a", "g", "o">>
      [] m = <<"s", "e", "t", "e", "m", "b", "r", "o">> -> <<"s", "e", "t">>
      [] m = <<"o", "u", "t", "u", "b", "r", "o">> -> <<"o", "u", "t">>
      [] m = <<"n", "o", "v", "e", "m", "b", "r", "o">> -> <<"n", "o", "v">>
      [] m = <<"d", "e", "z", "e", "m", "b", "r", "o">> -> <<"d", "e", "z">>
      [] OTHER -> m

\* mes_simplificado of one token; Nulo when the token has no run of [a-zç]
mes_simplificado(mes) ==
    IF ExtrairLetras(mes) = Nulo THEN Nulo ELSE nome_para_abrev(Lower(ExtrairLetras(mes)))

\* groupby(...).agg("first"): the first value that is not NaN
Primeiro(s) == IF SemNaN(s) = <<>> THEN NaN ELSE Head(SemNaN(s))

Coluna(linhas, c) == [i \in DOMAIN linhas |-> linhas[i][c]]

\* df.groupby(["talhao", "mes_simplificado"], as_index=False).agg(...): groups in key
\* order, rows with a null key left out
Agregar(df) ==
    LET simp == [i \in DOMAIN df.linhas |->
                    [r |-> df.linhas[i], mes_simplificado |-> mes_simplificado(df.linhas[i].mes)]] \o <<>>
        com == SelectSeq(simp, LAMBDA x : x.mes_simplificado # Nulo)
        keys == Ordenar({<<x.r.talhao, x.mes_simplificado>> : x \in Range(com)})
        grupo(k) == LET sel == SelectSeq(com, LAMBDA x : <<x.r.talhao, x.mes_simplificado>> = k)
                    IN [j \in DOMAIN sel |-> sel[j].r]
    IN [i \in DOMAIN keys |->
          LET g == grupo(keys[i])
          IN [talhao |-> keys[i][1], mes_simplificado |-> keys[i][2],
              umidade |-> Media(Coluna(g, "umidade")),
              precipitacao |-> Media(Coluna(g, "precipitacao")),
              temp_maxima |-> Media(Coluna(g, "temp_maxima")),
              temp_media |-> Media(Coluna(g, "temp_media")),
              lat |-> IF df.tem_coords THEN Primeiro(Coluna(g, "lat")) ELSE NaN,
              lon |-> IF df.tem_coords THEN Primeiro(Coluna(g, "lon")) ELSE NaN]]

\* The frame ag after lines 171-181: the four normalised columns and the seven 0/1 columns
Caracteristicas(g) ==
    Unico({[i \in DOMAIN g |->
              [talhao |-> g[i].talhao, mes_simplificado |-> g[i].mes_simplificado,
               lat |-> g[i].lat, lon |-> g[i].lon,
               bruto |-> [c \in Range(clima) |-> g[i][c]],
               x |-> [c \in Range(Criterios) |->
                        CASE c = "umidade" -> un[i]
                          [] c = "precipitacao" -> pn[i]
                          [] c = "temp_maxima" -> xn[i]
                          [] c = "temp_media" -> mn[i]
                          [] OTHER -> IF variaveis_talhao(Str(g[i].talhao), c) THEN Num(1) ELSE Num(0)]]]
           : un \in {normalizar_escala(Coluna(g, "umidade"), TRUE)},
             pn \in {normalizar_escala(Coluna(g, "precipitacao"), TRUE)},
             xn \in {normalizar_escala(Coluna(g, "temp_maxima"), FALSE)},
             mn \in {normalizar_escala(Coluna(g, "temp_media"), FALSE)}})

\* X * w with the columns of X in the order of valores_cols and the entries of w in the
\* order of the weight vector
ProdutosPosicional(x, w) == [k \in DOMAIN ordem |-> RMul(x[Criterios[k]], Num(w[ordem[k]]))] \o <<>>

\* X * w for one row: column k of X is the feature of the criterion ordem[k], and
\* entry k of w its weight as a float
Produtos(x, w) == [k \in DOMAIN ordem |-> RMul(x[ordem[k]], Num(w[ordem[k]]))] \o <<>>

\* (X * w).sum(axis=1) for one row
SomaPonderada(x, w) == SomaNumpy(Produtos(x, w))

RMin(a, b) == Unico({IF RLt(p[2], p[1]) THEN p[2] ELSE p[1] : p \in {<<a, b>>}})
RMax(a, b) == Unico({IF RLt(p[1], p[2]) THEN p[2] ELSE p[1] : p \in {<<a, b>>}})

\* np.clip: NaN stays NaN
Clip(s, lo, hi) == Unico({IF IsNaN(v) THEN NaN ELSE RMin(RMax(v, lo), hi) : v \in {s}})

\* Lines 199-207: the score of a row with features x under the weights w
Score(x, w) ==
    Unico({Unico({LET s_final == IF ~REq(mx, mn)
                                 THEN RMul(RDiv(RSub(s_bruto, mn), RSub(mx, mn)), Num(100))
                                 ELSE Num(0)
                  IN Clip(s_final, Num(0), Num(100))
                  : mn \in {RMin(s_min, s_max)}, mx \in {RMax(s_min, s_max)}})
           : s_bruto \in {SomaPonderada(x, w)},
             s_min \in {SomaPonderada([c \in Range(Criterios) |-> Num(0)], w)},
             s_max \in {SomaPonderada([c \in Range(Criterios) |-> Num(1)], w)}})

\* sort_values(["talhao", "mes"]): insertion sort (stable) by the values of the two columns
RECURSIVE sort_values(_)
sort_values(s) ==
    IF s = <<>> THEN <<>>
    ELSE LET r == sort_values(SubSeq(s, 1, Len(s) - 1))
             x == s[Len(s)]
             n == Cardinality({i \in DOMAIN r : ~ChaveMenor(<<x.talhao, x.mes>>, <<r[i].talhao, r[i].mes>>)})
         IN SubSeq(r, 1, n) \o <<x>> \o SubSeq(r, n + 1, Len(r))

\* calcular_scores_mensais from the frame ag: [tem_coords, linhas]
calcular_scores_mensais(f, tem_coords, w) ==
    [tem_coords |-> tem_coords,
     linhas |-> sort_values([i \in DOMAIN f |->
        [talhao |-> f[i].talhao, mes |-> f[i].mes_simplificado,
         lat |-> f[i].lat, lon |-> f[i].lon, score |-> Score(f[i].x, w)]])]

-----------------------------------------------------------------------------
(* app.py: the risk classes                                                *)

R_BINS == <<0, 20, 40, 60, 80, 100>>
R_LABELS == <<"R1", "R2", "R3", "R4", "R5">>

\* pd.cut with right=False: left-closed bins
class_geral_left_closed(s) ==
    IF IsNaN(s) THEN "NaN"
    ELSE IF REq(s, Num(R_BINS[6])) THEN R_LABELS[5]
    ELSE IF \E i \in 1..5 : RLe(Num(R_BINS[i]), s) /\ RLt(s, Num(R_BINS[i + 1]))
         THEN R_LABELS[CHOOSE i \in 1..5 : RLe(Num(R_BINS[i]), s) /\ RLt(s, Num(R_BINS[i + 1]))]
    ELSE "NaN"

\* pd.cut(s, bins=R_BINS, labels=R_LABELS, include_lowest=True, right=True) of one value;
\* "NaN" is the missing category
class_geral_from_score(s) ==
    IF IsNaN(s) THEN "NaN"
    ELSE IF REq(s, Num(R_BINS[1])) THEN R_LABELS[1]
    ELSE IF \E i \in 1..5 : RLt(Num(R_BINS[i]), s) /\ RLe(s, Num(R_BINS[i + 1]))
         THEN R_LABELS[CHOOSE i \in 1..5 : RLt(Num(R_BINS[i]), s) /\ RLe(s, Num(R_BINS[i + 1]))]
    ELSE "NaN"

\* R_MAP; 0 is the missing index
R_MAP(lab) == IF \E i \in 1..5 : R_LABELS[i] = lab THEN CHOOSE i \in 1..5 : R_LABELS[i] = lab ELSE 0

add_reclassificacoes(res) ==
    [tem_coords |-> res.tem_coords,
     linhas |-> [i \in DOMAIN res.linhas |->
        [talhao |-> res.linhas[i].talhao, mes |-> res.linhas[i].mes,
         lat |-> res.linhas[i].lat, lon |-> res.linhas[i].lon, score |-> res.linhas[i].score,
         classe_geral |-> class_geral_from_score(res.linhas[i].score),
         classe_geral_idx |-> R_MAP(class_geral_from_score(res.linhas[i].score))]]]

-----------------------------------------------------------------------------
(* The uploads: bounded families of workbooks                              *)

Nenhum == [nenhum |-> TRUE]

Aba(nome, pontos, cols, cel) == [nome |-> nome, pontos |-> pontos, cols |-> cols, cel |-> cel]

JUN_2021 == <<"j", "u", "n", "_", "2", "0", "2", "1">>
JUN_2022 == <<"j", "u", "n", "_", "2", "0", "2", "2">>
JUL_2021 == <<"j", "u", "l", "_", "2", "0", "2", "1">>
TEMP_JUN_2021 == <<"t", "e", "m", "p", "_", "j", "u", "n", "_", "2", "0", "2", "1">>

\* Family 1: the sheet names vary.  Every subsequence of NomesDeAba is a workbook; the
\* sheet at position i of NomesDeAba holds one month of two plots, the odd ones with
\* coordinates.
NomesDeAba == <<
    <<"P", "r", "e", "c", "i", "p", "i", "t", "a", "c", "a", "o", "_", "t", "o", "t", "a", "l">>,
    <<"T", "E", "M", "P", "_", "M", "A", "X">>,
    <<"T", "e", "m", "p", "_", "m", "U+00E9", "d", "i", "a", "_", "f", "i", "n", "a", "l">>,
    <<"T", "e", "m", "p", "_", "m", "e", "d", "i", "a", "_", "f", "i", "n", "a", "l">>,
    <<"u", "m", "i", "d", "a", "d", "e", "_", "r", "e", "l", "a", "t", "i", "v", "a", " ", "(", "%", ")">>,
    <<"U", "m", "i", "d", "a", "d", "e", " ", "R", "e", "l", "a", "t", "i", "v", "a">>,
    <<"T", "e", "m", "p", "_", "m", "a", "x", "_", "U", "m", "i", "d", "a", "d", "e", "_", "R", "e", "l", "a", "t", "i", "v", "a">>,
    <<"T", "E", "M", "P", "_", "M", "U+00C9", "D", "I", "A", "_", "F", "I", "N", "A", "L">> >>

AbaDeNome(i) ==
    IF i % 2 = 1
    THEN Aba(NomesDeAba[i], <<2, 10>>, <<LAT, LON, JUN_2021>>,
             << <<Num(-20), Num(-47), Num(i)>>, <<Num(-21), Num(-48), Num(i + 1)>> >>)
    ELSE Aba(NomesDeAba[i], <<2, 10>>, <<JUN_2021>>, << <<Num(i)>>, <<Num(i + 2)>> >>)

ArquivosAbas ==
    {LET idx == SelectSeq([i \in DOMAIN NomesDeAba |-> i], LAMBDA i : i \in S)
     IN [k \in DOMAIN idx |-> AbaDeNome(idx[k])] : S \in SUBSET DOMAIN NomesDeAba}

\* Family 2: the headers vary.  The four sheets carry the canonical names; the
\* precipitation sheet has two month columns with different headers of Cabecalhos.
Cabecalhos == {
    <<"j", "a", "n", "_", "2", "0", "2", "1">>,
    <<"t", "e", "m", "p", "_", "j", "a", "n", "_", "2", "0", "2", "1">>,
    <<"T", "E", "M", "P", "_", "J", "A", "N", "_", "2", "0", "2", "1">>,
    <<"U", "m", "i", "d", "_", "J", "a", "n", "_", "2", "0", "2", "1">>,
    <<"a", "b", "r", "_", "2", "0", "2", "2">>,
    <<"a", "b", "r", "i", "l", "_", "2", "0", "2", "2">>,
    <<"u", "m", "i", "d", "_", "m", "a", "r", "c", "o", "_", "2", "0", "2", "3">>,
    <<"m", "a", "r", "U+00E7", "o", "_", "2", "0", "2", "3">>,
    <<"d", "e", "c", "_", "2", "0", "2", "1">>,
    <<"j", "a", "n", "e", "i", "r", "o", "_", "2", "0", "2", "1">>,
    <<"O", "b", "s">>,
    <<"A", "r", "e", "a">> }

ArquivosCabecalhos ==
    {<< Aba(NOME_PRECIPITACAO, <<2>>, <<LAT, LON, h[1], h[2]>>, << <<Num(-20), Num(-47), Num(1), Num(2)>> >>),
        Aba(NOME_TEMP_MAX, <<2>>, <<TEMP_JUN_2021>>, << <<Num(30)>> >>),
        Aba(NOME_TEMP_MEDIA, <<2>>, <<JUN_2021>>, << <<Num(20)>> >>),
        Aba(NOME_UMIDADE, <<2, 10>>, <<JUN_2021, JUN_2022>>, << <<Num(50), Num(60)>>, <<Num(70), NaN>> >>) >>
     : h \in {x \in Cabecalhos \X Cabecalhos : x[1] # x[2]}}

\* Family 3: the climate values vary.  Two plots A and B (first and second row) and
\* three periods, two of them the same month of different years.  The max temperature
\* of A varies in the two June columns (and may be missing) and the humidity of B in
\* the first; precipitation is the same everywhere and the mean temperature the same
\* for both plots.
MaxValor == 2

Valores == {NaN} \cup {Num(k) : k \in 1..MaxValor}

ValoresUmidade == {Num(k) : k \in 1..(MaxValor + 1)}

ParesDePontos == {<<2, 10>>, <<101, 102>>}

Periodos == <<JUN_2021, JUN_2022, JUL_2021>>

ArquivosClima ==
    {<< Aba(NOME_PRECIPITACAO, p, <<LAT, LON>> \o Periodos,
            << <<Num(-20), Num(-47), Num(1), Num(1), Num(1)>>, <<Num(-21), Num(-48), Num(1), Num(1), Num(1)>> >>),
        Aba(NOME_TEMP_MAX, p, Periodos, << <<a[1], a[2], Num(1)>>, <<Num(0), Num(0), Num(0)>> >>),
        Aba(NOME_TEMP_MEDIA, p, Periodos, << <<Num(20), Num(21), Num(22)>>, <<Num(20), Num(21), Num(22)>> >>),
        Aba(NOME_UMIDADE, p, Periodos, << <<Num(1), Num(1), Num(1)>>, <<b, Num(2), Num(2)>> >>) >>
     : p \in ParesDePontos, a \in Valores \X Valores, b \in ValoresUmidade}

\* Family 4: the coordinate columns vary.  Each of the four sheets has no coordinate
\* column, LAT only, or LAT and LON, with values that differ from sheet to sheet and
\* from row to row; the max temperature sheet lists plot 2 only, and the precipitation
\* sheet lists plot 2 once or twice.
Layouts == {<<>>, <<LAT>>, <<LAT, LON>>}

AbaComCoords(i, nome, pontos, layout) ==
    Aba(nome, pontos, layout \o <<JUN_2021>>,
        [r \in DOMAIN pontos |->
            [k \in DOMAIN layout |-> Num(-(20 * k + 3 * i + r))] \o <<Num(i + r)>>])

ArquivosCoords ==
    {<< AbaComCoords(1, NOME_PRECIPITACAO, p, l[1]),
        AbaComCoords(2, NOME_TEMP_MAX, <<2>>, l[2]),
        AbaComCoords(3, NOME_TEMP_MEDIA, <<2, 10>>, l[3]),
        AbaComCoords(4, NOME_UMIDADE, <<2, 10>>, l[4]) >>
     : l \in Layouts \X Layouts \X Layouts \X Layouts, p \in {<<2, 10>>, <<2, 10, 2>>}}

\* Family 5: the scale of the values varies.  The layout of family 3, where plot A has
\* the higher max temperature and the lower humidity in every period; the July max
\* temperature of A and the July humidity of B are 4 or 2^60.
ArquivosEscala ==
    {<< Aba(NOME_PRECIPITACAO, p, <<LAT, LON>> \o Periodos,
            << <<Num(-20), Num(-47), Num(1), Num(1), Num(1)>>, <<Num(-21), Num(-48), Num(1), Num(1), Num(1)>> >>),
        Aba(NOME_TEMP_MAX, p, Periodos, << <<Num(1), Num(1), g>>, <<Num(0), Num(0), Num(0)>> >>),
        Aba(NOME_TEMP_MEDIA, p, Periodos, << <<Num(20), Num(21), Num(22)>>, <<Num(20), Num(21), Num(22)>> >>),
        Aba(NOME_UMIDADE, p, Periodos, << <<Num(1), Num(1), Num(1)>>, <<Num(2), Num(2), g>> >>) >>
     : p \in ParesDePontos, g \in {Num(4), Pot2(60)}}

Arquivos == ArquivosAbas \cup ArquivosCabecalhos \cup ArquivosClima \cup ArquivosCoords \cup ArquivosEscala

\* The weight vectors (pesos.py is not among the sources; the weights are any
\* non-negative numbers): every criterion k, for k up to MaxPeso, and one vector with a
\* different weight for every criterion
MaxPeso == 1

Pesos ==
    {[c \in Range(Criterios) |-> k] : k \in 0..MaxPeso}
    \cup {[c \in Range(Criterios) |-> CHOOSE k \in DOMAIN Criterios : Criterios[k] = c]}

\* The iteration orders of the weight vector: the order of valores_cols and its reverse
Inverso(s) == [i \in DOMAIN s |-> s[Len(s) + 1 - i]]

Ordens == {Criterios, Inverso(Criterios)}

-----------------------------------------------------------------------------
(* The upload handler of app.py, lines 165-203                             *)

\* groupby("talhao").agg(lat first, lon first, score mean, classe_geral_idx mean), then
\* dropna on lat/lon and the class of the mean score (lines 177-197)
MapaAnual(res) ==
    LET ts == Ordenar({<<r.talhao, <<>> >> : r \in Range(res.linhas)})
        g(t) == SelectSeq(res.linhas, LAMBDA r : r.talhao = t)
        todos == [i \in DOMAIN ts |->
            LET score_medio == Media(Coluna(g(ts[i][1]), "score"))
                idx == SelectSeq(Coluna(g(ts[i][1]), "classe_geral_idx"), LAMBDA x : x # 0)
            IN [talhao |-> Str(ts[i][1]),
                lat |-> Primeiro(Coluna(g(ts[i][1]), "lat")),
                lon |-> Primeiro(Coluna(g(ts[i][1]), "lon")),
                score_medio |-> score_medio,
                classe_media_idx |-> Media([k \in DOMAIN idx |-> Num(idx[k])]),
                classe_media |-> class_geral_from_score(score_medio)]]
    IN SelectSeq(todos, LAMBDA r : ~IsNaN(r.lat) /\ ~IsNaN(r.lon))

Init ==
    /\ pc = "idle"
    /\ atributos = Registro
    /\ pesos_ahp \in Pesos
    /\ ordem \in Ordens
    /\ arquivo = <<>>
    /\ df_processado = Nenhum
    /\ ag = Nenhum
    /\ resultado_raw = Nenhum
    /\ resultado = Nenhum
    /\ df_mapa_anual = Nenhum
    /\ erro = ""
    /\ score_in = NaN
    /\ classe_out = ""

\* st.file_uploader returns a file (line 165)
Upload ==
    /\ pc = "idle"
    /\ arquivo' \in Arquivos
    /\ pc' = "carregar"
    /\ UNCHANGED <<atributos, pesos_ahp, ordem, df_processado, ag, resultado_raw, resultado, df_mapa_anual, erro, score_in, classe_out>>

\* Line 169: carregar_base_reme, with its ValueError (calculo.py lines 32-33) caught at line 201
Carregar ==
    /\ pc = "carregar"
    /\ IF Faltando(arquivo)
       THEN /\ erro' = "ValueError"
            /\ pc' = "stop"
            /\ UNCHANGED df_processado
       ELSE /\ df_processado' = carregar_base_reme(arquivo)
            /\ pc' = "calcular"
            /\ UNCHANGED erro
    /\ UNCHANGED <<atributos, pesos_ahp, ordem, arquivo, ag, resultado_raw, resultado, df_mapa_anual, score_in, classe_out>>

\* Line 172: calcular_scores_mensais(df_processado, variaveis_talhao), the dictionary
\* being the one of variaveis_talhao.py (app.py line 8)
Calcular ==
    /\ pc = "calcular"
    /\ ag' = Caracteristicas(Agregar(df_processado))
    /\ resultado_raw' = calcular_scores_mensais(ag', df_processado.tem_coords, pesos_ahp)
    /\ pc' = "reclassificar"
    /\ UNCHANGED <<atributos, pesos_ahp, ordem, arquivo, df_processado, resultado, df_mapa_anual, erro, score_in, classe_out>>

\* Line 173: add_reclassificacoes
Reclassificar ==
    /\ pc = "reclassificar"
    /\ resultado' = add_reclassificacoes(resultado_raw)
    /\ pc' = "mapa"
    /\ UNCHANGED <<atributos, pesos_ahp, ordem, arquivo, df_processado, ag, resultado_raw, df_mapa_anual, erro, score_in, classe_out>>

\* Lines 177-199: the annual frame; without the columns lat and lon the aggregation
\* raises KeyError, caught at line 201
Mapa ==
    /\ pc = "mapa"
    /\ IF resultado.tem_coords
       THEN /\ df_mapa_anual' = MapaAnual(resultado)
            /\ pc' = "pronto"
            /\ UNCHANGED erro
       ELSE /\ erro' = "KeyError"
            /\ pc' = "stop"
            /\ UNCHANGED df_mapa_anual
    /\ UNCHANGED <<atributos, pesos_ahp, ordem, arquivo, df_processado, ag, resultado_raw, resultado, score_in, classe_out>>

\* Streamlit runs the script again for the next upload
Rerun ==
    /\ pc \in {"stop", "pronto"}
    /\ pc' = "idle"
    /\ arquivo' = <<>>
    /\ df_processado' = Nenhum
    /\ ag' = Nenhum
    /\ resultado_raw' = Nenhum
    /\ resultado' = Nenhum
    /\ df_mapa_anual' = Nenhum
    /\ erro' = ""
    /\ UNCHANGED <<atributos, pesos_ahp, ordem, score_in, classe_out>>

Next == Upload \/ Carregar \/ Calcular \/ Reclassificar \/ Mapa \/ Rerun

Spec == Init /\ [][Next]_vars

-----------------------------------------------------------------------------
(* class_geral_from_score on its own                                       *)

ScoreDen == 2

\* The scores k / ScoreDen of [0, 100], and the double that follows each inner bin
\* edge: the edge plus one unit of its last place
Scores ==
    {Frac(k, ScoreDen) : k \in 0..(100 * ScoreDen)}
    \cup {RAdd(Num(R_BINS[i]), Pot2(Topo(Num(R_BINS[i])) - Precisao)) : i \in 2..5}

InitClasse ==
    /\ pc = "classe"
    /\ atributos = Registro
    /\ pesos_ahp = [c \in Range(Criterios) |-> 0]
    /\ ordem = Criterios
    /\ arquivo = <<>>
    /\ df_processado = Nenhum
    /\ ag = Nenhum
    /\ resultado_raw = Nenhum
    /\ resultado = Nenhum
    /\ df_mapa_anual = Nenhum
    /\ erro = ""
    /\ score_in \in Scores
    /\ classe_out = ""

Classificar ==
    /\ pc = "classe"
    /\ classe_out' = class_geral_from_score(score_in)
    /\ pc' = "classificado"
    /\ UNCHANGED <<atributos, pesos_ahp, ordem, arquivo, df_processado, ag, resultado_raw, resultado, df_mapa_anual, erro, score_in>>

NextClasse == Classificar

SpecClasse == InitClasse /\ [][NextClasse]_vars

-----------------------------------------------------------------------------
(* calcular_scores_mensais on its own (calculo.py line 128): a call with a   *)
(* consolidated table and a dictionary of plot attributes                    *)

FeatDen == 5

\* A row of the consolidated table for June 2021, without coordinates: v holds the
\* precipitation, the max temperature, the mean temperature and the humidity
LinhaClima(t, v) ==
    [talhao |-> t, mes |-> JUN_2021, precipitacao |-> v[1], temp_maxima |-> v[2],
     temp_media |-> v[3], umidade |-> v[4], lat |-> NaN, lon |-> NaN]

\* The tables.  Plot 2 has climate values of 0..FeatDen (the max temperature any of
\* them or null); plot 101 has the values of lowest risk (most rain and humidity, coolest); plot
\* 102, present or not, has the values of highest risk.
Tabelas ==
    {[tem_coords |-> FALSE,
      linhas |-> <<LinhaClima(2, v), LinhaClima(101, <<Num(FeatDen), Num(0), Num(0), Num(FeatDen)>>)>> \o resto]
     : v \in {Num(0), Num(FeatDen)} \X ({NaN} \cup {Num(k) : k \in 0..FeatDen})
                \X {Num(0), Num(2), Num(FeatDen)} \X {Num(0), Num(FeatDen)},
       resto \in {<<>>, << LinhaClima(102, <<Num(0), Num(FeatDen), Num(FeatDen), Num(0)>>) >>}}

\* The dictionaries: the one of variaveis_talhao.py, and those where plot 102 has the
\* seven attributes and plot 2 the first n of bool_vars; plot 101 has none
Dicionarios ==
    {Registro} \cup
    {[var \in Range(bool_vars) |->
        {Str(102)} \cup (IF (CHOOSE k \in DOMAIN bool_vars : bool_vars[k] = var) <= n THEN {Str(2)} ELSE {})]
     : n \in {0, 3, 7}}

\* The weight vectors are those of Pesos and one with zeros: 1 for the two temperatures
\* and cerrado, 0 for the other criteria
InitPontuacao ==
    /\ pc = "calcular"
    /\ atributos \in Dicionarios
    /\ pesos_ahp \in Pesos \cup
          {[c \in Range(Criterios) |-> IF c \in {"temp_maxima", "temp_media", "cerrado"} THEN 1 ELSE 0]}
    /\ ordem \in Ordens
    /\ arquivo = <<>>
    /\ df_processado \in Tabelas
    /\ ag = Nenhum
    /\ resultado_raw = Nenhum
    /\ resultado = Nenhum
    /\ df_mapa_anual = Nenhum
    /\ erro = ""
    /\ score_in = NaN
    /\ classe_out = ""

NextPontuacao == Calcular

SpecPontuacao == InitPontuacao /\ [][NextPontuacao]_vars
-----------------------------------------------------------------------------
(* Properties                                                              *)

\* C1: every score returned by calcular_scores_mensais lies in [0, 100] (never NaN,
\* never out of range), whatever the weights and the climate values
C1_ScoreEmFaixa ==
    resultado_raw # Nenhum =>
        \A i \in DOMAIN resultado_raw.linhas :
            /\ RLe(Num(0), resultado_raw.linhas[i].score)
            /\ RLe(resultado_raw.linhas[i].score, Num(100))

NOMES_ESPERADOS == {NOME_PRECIPITACAO, NOME_TEMP_MAX, NOME_TEMP_MEDIA, NOME_UMIDADE}

\* The workbook lacks a sheet whose name contains, case-insensitively, one of the four names
FaltaAba(arq) ==
    \E nome \in NOMES_ESPERADOS : \A i \in DOMAIN arq : ~Contem(Lower(arq[i].nome), Lower(nome))

\* C2: when a required sheet is missing the upload ends in the ValueError of
\* carregar_base_reme, no table is returned and the scoring is never started; when the
\* four are matched that error is not raised and the table is returned
C2_AbaFaltando ==
    pc # "idle" =>
        IF FaltaAba(arquivo)
        THEN /\ pc \in {"carregar", "stop"}
             /\ pc = "stop" => erro = "ValueError"
             /\ df_processado = Nenhum
             /\ ag = Nenhum
             /\ resultado_raw = Nenhum
        ELSE /\ erro # "ValueError"
             /\ pc # "carregar" => df_processado # Nenhum

\* C2 witness: a workbook of four or more sheets, one of them under a name that is not
\* matched, has ended in the error
C2_Witness ==
    /\ pc = "stop"
    /\ erro = "ValueError"
    /\ Len(arquivo) >= 4
    /\ FaltaAba(arquivo)
    /\ \E i \in DOMAIN arquivo : arquivo[i].nome = NomesDeAba[6]

\* The band of a score of [0, 100] by right-closed bins of width 20, 0 in the first
Faixa(x) == CHOOSE k \in 1..5 : RLe(x, Num(20 * k)) /\ (k > 1 => RLt(Num(20 * (k - 1)), x))

\* C3: every score of [0, 100] gets exactly one label of R1..R5, the one of its
\* right-closed bin (0 and 20 in R1, 40 in R2, 60 in R3, 80 in R4, 100 in R5), and the
\* label never decreases as the score grows
C3_ClasseTotal ==
    pc = "classificado" =>
        /\ classe_out \in Range(R_LABELS)
        /\ classe_out = R_LABELS[Faixa(score_in)]
        /\ \A k \in 1..5 : REq(score_in, Num(20 * k)) => classe_out = R_LABELS[k]
        /\ \A x \in Scores :
              RLe(score_in, x) => R_MAP(classe_out) <= R_MAP(class_geral_from_score(x))

\* C3 witness: the boundary 20 has been classified, as R1
C3_Witness == pc = "classificado" /\ score_in = Num(20) /\ classe_out = "R1"

\* The four long tables of the uploaded workbook
Longos(arq) == Derreter(LerAbas(arq))

\* The rows of the merged table under a key <<plot, token>>
LinhasDaChave(df, k) == {i \in DOMAIN df.linhas : <<df.linhas[i].talhao, df.linhas[i].mes>> = k}

\* C4: every key <<plot, token>> of one of the four long tables appears exactly once in
\* the table returned by carregar_base_reme, with NaN for each variable whose long
\* table lacks the key (also when two headers of a sheet give the same token)
C4_ChaveUmaVez ==
    df_processado # Nenhum =>
        \A j \in 1..4 : \A r \in Range(Longos(arquivo)[j]) :
            /\ Cardinality(LinhasDaChave(df_processado, Chave(r))) = 1
            /\ \A i \in LinhasDaChave(df_processado, Chave(r)) :
                  \A n \in 1..4 :
                      (\A q \in Range(Longos(arquivo)[n]) : Chave(q) # Chave(r))
                          => IsNaN(df_processado.linhas[i][<<"precipitacao", "temp_maxima", "temp_media", "umidade">>[n]])

MESES_ABREVIADOS == <<<<"j", "a", "n">>, <<"f", "e", "v">>, <<"m", "a", "r">>, <<"a", "b", "r">>, <<"m", "a", "i">>, <<"j", "u", "n">>, <<"j", "u", "l">>, <<"a", "g", "o">>, <<"s", "e", "t">>, <<"o", "u", "t">>, <<"n", "o", "v">>, <<"d", "e", "z">>>>

\* A token <m>_<yyyy> with m one of the twelve abbreviations
TokenValido(mes) ==
    /\ Len(Split(mes)) = 2
    /\ Split(mes)[1] \in Range(MESES_ABREVIADOS)
    /\ Len(Split(mes)[2]) = 4
    /\ \A c \in Range(Split(mes)[2]) : EhDigito(c)

\* C8: every token mes of the table returned by carregar_base_reme is empty or of the
\* form <m>_<yyyy> with m one of the twelve abbreviations
C8_TokenNoVocabulario ==
    df_processado # Nenhum =>
        \A i \in DOMAIN df_processado.linhas :
            df_processado.linhas[i].mes = <<>> \/ TokenValido(df_processado.linhas[i].mes)

\* The exact sum and the exact product of two finite floats: a value of the same shape
\* whose mantissa is not cut to 53 bits
ExatoAdd(a, b) ==
    IF IsNaN(a) \/ IsNaN(b) THEN NaN ELSE LET x == XAdd(a, b) IN <<1, x[1], x[2], x[3]>>

ExatoMul(a, b) ==
    IF IsNaN(a) \/ IsNaN(b) THEN NaN
    ELSE IF IsZero(a) \/ IsZero(b) THEN Zero(1)
    ELSE <<1, a[2] * b[2], NMul(a[3], b[3]), a[4] + b[4]>>

RECURSIVE ExatoSoma(_)
ExatoSoma(s) == IF s = <<>> THEN Zero(1) ELSE ExatoAdd(Head(s), ExatoSoma(Tail(s)))

\* The rows of the input table of a plot and a month of the year
LinhasDoMes(df, talhao, m) ==
    SelectSeq(df.linhas, LAMBDA r : r.talhao = talhao /\ mes_simplificado(r.mes) = m)

\* The pairs <<plot, month of the year>> observed in the input table
ParesObservados(df) ==
    {<<r.talhao, mes_simplificado(r.mes)>> : r \in {q \in Range(df.linhas) : mes_simplificado(q.mes) # Nulo}}

\* C5: the output has exactly one row per pair <<plot, month of the year>> observed in
\* the input, and the value of each climate criterion that enters the normalisation is
\* the arithmetic mean of the pair's non-null values over all years (the double nearest
\* to their exact sum divided by their number)
C5_ColapsaAnos ==
    resultado_raw # Nenhum =>
        /\ {<<r.talhao, r.mes>> : r \in Range(resultado_raw.linhas)} = ParesObservados(df_processado)
        /\ Len(resultado_raw.linhas) = Cardinality(ParesObservados(df_processado))
        /\ Len(ag) = Cardinality(ParesObservados(df_processado))
        /\ \A i \in DOMAIN ag : \A c \in Range(clima) :
              LET vals == SemNaN(Coluna(LinhasDoMes(df_processado, ag[i].talhao, ag[i].mes_simplificado), c))
              IN IF vals = <<>> THEN IsNaN(ag[i].bruto[c])
                 ELSE ag[i].bruto[c] = RDiv(ExatoSoma(vals), Num(Len(vals)))

\* C5 witness: two years of June with max temperatures 1 and 2 have been collapsed into
\* one row with the mean 3/2
C5_Witness ==
    /\ resultado_raw # Nenhum
    /\ \E i \in DOMAIN ag :
          /\ ag[i].mes_simplificado = <<"j", "u", "n">>
          /\ ag[i].bruto["temp_maxima"] = Frac(3, 2)
          /\ Len(LinhasDoMes(df_processado, ag[i].talhao, ag[i].mes_simplificado)) = 2
    /\ Len(resultado_raw.linhas) < Len(df_processado.linhas)

\* C6: within one call, a strictly higher raw humidity or precipitation never gives a
\* strictly higher normalised value, a strictly higher raw temperature never a strictly
\* lower one, and every normalised value lies in [0, 1]
C6_NormalizacaoMonotona ==
    ag # Nenhum =>
        /\ \A i, j \in DOMAIN ag : \A c \in {"umidade", "precipitacao"} :
              RLt(ag[j].bruto[c], ag[i].bruto[c]) => ~RLt(ag[j].x[c], ag[i].x[c])
        /\ \A i, j \in DOMAIN ag : \A c \in {"temp_maxima", "temp_media"} :
              RLt(ag[j].bruto[c], ag[i].bruto[c]) => ~RLt(ag[i].x[c], ag[j].x[c])
        /\ \A i \in DOMAIN ag : \A c \in Range(clima) :
              RLe(Num(0), ag[i].x[c]) /\ RLe(ag[i].x[c], Num(1))

\* The months of a plot in the aggregated frame
MesesDe(t) == {ag[i].mes_simplificado : i \in {k \in DOMAIN ag : ag[k].talhao = t}}

LinhaDe(t, m) == ag[CHOOSE i \in DOMAIN ag : ag[i].talhao = t /\ ag[i].mes_simplificado = m]

ScoreDe(t, m) ==
    resultado_raw.linhas[CHOOSE i \in DOMAIN resultado_raw.linhas :
        resultado_raw.linhas[i].talhao = t /\ resultado_raw.linhas[i].mes = m].score

\* The scenario of C7 for the plots a and b: the only two plots, the same months, no
\* missing value, no site attribute, and in every month a has the higher max
\* temperature, the lower humidity and the same precipitation and mean temperature
Domina(a, b) ==
    /\ a # b
    /\ {ag[i].talhao : i \in DOMAIN ag} = {a, b}
    /\ MesesDe(a) = MesesDe(b)
    /\ \A i \in DOMAIN ag :
          /\ \A c \in Range(clima) : ~IsNaN(ag[i].bruto[c])
          /\ \A v \in Range(bool_vars) : ag[i].x[v] = Num(0)
    /\ \A m \in MesesDe(a) :
          /\ RLt(LinhaDe(b, m).bruto["temp_maxima"], LinhaDe(a, m).bruto["temp_maxima"])
          /\ RLt(LinhaDe(a, m).bruto["umidade"], LinhaDe(b, m).bruto["umidade"])
          /\ REq(LinhaDe(a, m).bruto["precipitacao"], LinhaDe(b, m).bruto["precipitacao"])
          /\ REq(LinhaDe(a, m).bruto["temp_media"], LinhaDe(b, m).bruto["temp_media"])

PesosIguaisPositivos ==
    /\ \A c, d \in Range(Criterios) : pesos_ahp[c] = pesos_ahp[d]
    /\ \A c \in Range(Criterios) : pesos_ahp[c] > 0

\* C7: with equal positive weights, a plot that dominates the other one in every month
\* scores strictly higher in every month
C7_Dominancia ==
    (resultado_raw # Nenhum /\ PesosIguaisPositivos) =>
        \A a, b \in {ag[i].talhao : i \in DOMAIN ag} :
            Domina(a, b) => \A m \in MesesDe(a) : RLt(ScoreDe(b, m), ScoreDe(a, m))

\* Sorted ascending by <<str(plot id), month>>, no pair twice
ChaveStrMenor(a, b) == StrLess(Str(a.talhao), Str(b.talhao)) \/ (a.talhao = b.talhao /\ StrLess(a.mes, b.mes))

\* C9: the rows returned by calcular_scores_mensais are sorted ascending by plot id,
\* compared as strings, then month, and no pair occurs twice
C9_OrdenadoComoTexto ==
    resultado_raw # Nenhum =>
        \A i, j \in DOMAIN resultado_raw.linhas :
            i < j => ChaveStrMenor(resultado_raw.linhas[i], resultado_raw.linhas[j])

\* C10: a criterion whose aggregated values are all equal is normalised to 0 in every
\* row, for each of the four climate criteria
C10_VarianciaZero ==
    ag # Nenhum =>
        \A c \in Range(clima) :
            REq(SerieMin([i \in DOMAIN ag |-> ag[i].bruto[c]]), SerieMax([i \in DOMAIN ag |-> ag[i].bruto[c]]))
                => \A i \in DOMAIN ag : ag[i].x[c] = Num(0)

\* C11: a row of the input whose month token does not resolve is not dropped: the
\* output has a row of its plot under the null (or empty) month key
C11_NaoResolvidoMantido ==
    resultado_raw # Nenhum =>
        \A r \in Range(df_processado.linhas) :
            mes_simplificado(r.mes) = Nulo =>
                \E q \in Range(resultado_raw.linhas) : q.talhao = r.talhao /\ q.mes \in {Nulo, <<>>}

\* 100 * (sum of weight_k * feature_k) / (sum of the weights) as a real number, each
\* term taken by criterion name, 0 when all weights are zero; given as the double nearest
\* to it
Teorico(x, w) ==
    LET total == ExatoSoma([k \in DOMAIN Criterios |-> Num(w[Criterios[k]])])
        soma == ExatoSoma([k \in DOMAIN Criterios |-> ExatoMul(x[Criterios[k]], Num(w[Criterios[k]]))])
    IN IF IsZero(total) THEN Num(0) ELSE RDiv(ExatoMul(Num(100), soma), total)

\* a is b up to the rounding of float64 arithmetic: both null, or within 2^-48 of b
\* (b >= 0).  Lines 199-207 round fewer than 32 times, each time by at most 2^-53 of a
\* value that is at most the result.
Perto(a, b) ==
    IF IsNaN(a) \/ IsNaN(b)
    THEN IsNaN(a) /\ IsNaN(b)
    ELSE /\ RLe(RSub(a, b), RMul(b, Pot2(-48)))
         /\ RLe(RSub(b, a), RMul(b, Pot2(-48)))

\* C12: the score of every row is 100 * (sum of weight_k * feature_k) / (sum of the
\* weights) up to float64 rounding, each weight on the feature of its own criterion
\* whatever the order of the weight vector and whatever the other rows of the table; all
\* features 0 gives exactly 0, all features 1 gives exactly 100 (weights not all zero),
\* and all weights zero gives exactly 0
C12_ReescalaTeorica ==
    pc = "reclassificar" =>
        \A i \in DOMAIN ag :
            LET score == resultado_raw.linhas[i].score IN
            /\ resultado_raw.linhas[i].talhao = ag[i].talhao
            /\ Perto(score, Teorico(ag[i].x, pesos_ahp))
            /\ (\A c \in Range(Criterios) : ag[i].x[c] = Num(0)) => score = Num(0)
            /\ ((\A c \in Range(Criterios) : ag[i].x[c] = Num(1))
                    /\ (\E c \in Range(Criterios) : pesos_ahp[c] > 0)) => score = Num(100)
            /\ (\A c \in Range(Criterios) : pesos_ahp[c] = 0) => score = Num(0)

\* Distinct weights iterated in the reverse order, on a table of three plots: one row
\* with all features 0 and score 0, one with all features 1 and score 100, and one with
\* a feature strictly between whose score is not the double nearest to the real value
C12_Witness ==
    /\ pc = "reclassificar"
    /\ ordem = Inverso(Criterios)
    /\ \A c, d \in Range(Criterios) : c # d => pesos_ahp[c] # pesos_ahp[d]
    /\ Len(ag) = 3
    /\ \E i \in DOMAIN ag :
          /\ \A c \in Range(Criterios) : ag[i].x[c] = Num(0)
          /\ resultado_raw.linhas[i].score = Num(0)
    /\ \E i \in DOMAIN ag :
          /\ \A c \in Range(Criterios) : ag[i].x[c] = Num(1)
          /\ resultado_raw.linhas[i].score = Num(100)
    /\ \E i \in DOMAIN ag :
          /\ RLt(Num(0), ag[i].x["temp_media"]) /\ RLt(ag[i].x["temp_media"], Num(1))
          /\ RLt(Num(0), resultado_raw.linhas[i].score) /\ RLt(resultado_raw.linhas[i].score, Num(100))
          /\ resultado_raw.linhas[i].score # Teorico(ag[i].x, pesos_ahp)

\* A header <prefix><month>_<yyyy>, letters in any case: prefix empty or one of PREFIXOS,
\* month one of the twelve abbreviations
EhCabecalhoDeMes(h) ==
    \E pre \in {<<>>} \cup Range(PREFIXOS) : \E mm \in Range(MESES_ABREVIADOS) :
        /\ Len(h) = Len(pre) + 8
        /\ SubSeq(Lower(h), 1, Len(pre) + 4) = pre \o mm \o <<"_">>
        /\ \A k \in (Len(pre) + 5)..Len(h) : EhDigito(h[k])

\* Its lower-case <month>_<yyyy>
TokenEsperado(h) == SubSeq(Lower(h), Len(h) - 7, Len(h))

\* C13: every header <prefix><month>_<yyyy> of the four sheets, in any mix of upper and
\* lower case, gives the rows of its sheet the lower-case token <month>_<yyyy>
C13_CabecalhoSemCaixa ==
    df_processado # Nenhum =>
        \A i \in 1..4 : \A h \in Range(LerAbas(arquivo)[i].cols) :
            EhCabecalhoDeMes(h) =>
                \A t \in Range(LerAbas(arquivo)[i].pontos) :
                    \E r \in Range(df_processado.linhas) : r.talhao = t /\ r.mes = TokenEsperado(h)

\* The first of the four sheets, in the order of the reads, with both LAT and LON
PrimeiraComCoords(dfs) == CHOOSE i \in 1..4 : TemCoords(dfs[i]) /\ \A k \in 1..(i - 1) : ~TemCoords(dfs[k])

\* The row r of the merged table comes from a month column of one of the sheets: a
\* header other than LAT and LON with the token of r, whose cell is the value of r
VemDeColunaDeMes(dfs, r) ==
    \E i \in 1..4 : \E c \in DOMAIN dfs[i].cols : \E p \in DOMAIN dfs[i].pontos :
        /\ dfs[i].cols[c] \notin {LAT, LON}
        /\ dfs[i].pontos[p] = r.talhao
        /\ dfs[i].cel[p][c] = r[<<"precipitacao", "temp_maxima", "temp_media", "umidade">>[i]]
        /\ Mes_Ano(dfs[i].cols[c]) = r.mes

\* C14: lat and lon of every row are values of its plot in the first sheet that has
\* both LAT and LON (those of one of its rows there), whatever later sheets hold, and
\* null for a plot that sheet does not list (or when no sheet has both); every row
\* comes from a month column, never from LAT or LON; attaching the coordinates leaves
\* the number of rows unchanged.
\* Stated of the table as carregar_base_reme has just returned it
C14_CoordenadasDeUmaAba ==
    pc = "calcular" =>
        \A dfs \in {LerAbas(arquivo)} :
        /\ df_processado.tem_coords = (\E i \in 1..4 : TemCoords(dfs[i]))
        /\ \A r \in Range(df_processado.linhas) :
              /\ VemDeColunaDeMes(dfs, r)
              /\ IF (\E i \in 1..4 : TemCoords(dfs[i]))
                    /\ r.talhao \in Range(dfs[PrimeiraComCoords(dfs)].pontos)
                 THEN LET df == dfs[PrimeiraComCoords(dfs)]
                      IN \E p \in DOMAIN df.pontos :
                            /\ df.pontos[p] = r.talhao
                            /\ r.lat = df.cel[p][ColIdx(df, LAT)]
                            /\ r.lon = df.cel[p][ColIdx(df, LON)]
                 ELSE IsNaN(r.lat) /\ IsNaN(r.lon)
        /\ Len(df_processado.linhas) = Len(Juntar(Longos(arquivo)))

====
